---- MODULE Spec2Model ----
(***************************************************************************)
(* Model of rust_demo (src/rust_demo/src/main.rs).                         *)
(*                                                                         *)
(*   fn banner(message: &str) -> String {                                  *)
(*       format!("*** {} ***", message.to_uppercase())                     *)
(*   }                                                                     *)
(*   fn main() { println!("{}", banner("codex demo")); }                   *)
(*                                                                         *)
(* A text is a sequence of characters; a character is written as a         *)
(* one-character string, or as "U+XXXX" for a character outside ASCII.     *)
(* Two specifications:                                                     *)
(*   Spec        one run of the program (main), started with any           *)
(*               arguments and environment, writing to a standard output   *)
(*               whose write may fail;                                     *)
(*   SpecBanner  banner applied to inputs drawn from a bounded set of      *)
(*               texts (the unit test's call, generalised).                *)
(***************************************************************************)
EXTENDS Naturals, Integers, Sequences, FiniteSets

VARIABLES
    args,       \* main: the command-line arguments the process was started with
    env,        \* main: the environment variables set at start
    pc,         \* main: position of the process
    arg,        \* main: the literal text passed to banner
    ret,        \* main: the String banner returned
    calls,      \* main: number of calls of banner so far
    stdout,     \* main: the characters standard output has received
    exitCode,   \* main: exit code once the process has ended, -1 before
    s1,         \* banner under test: first input
    s2,         \* banner under test: second input
    out1,       \* banner(s1)
    out2,       \* banner(s2)
    outTwice,   \* banner(banner(s1))
    outUpper,   \* banner(s1.to_uppercase())
    stage       \* banner under test: which call comes next

vars == <<args, env, pc, arg, ret, calls, stdout, exitCode,
          s1, s2, out1, out2, outTwice, outUpper, stage>>

mainVars == <<args, env, pc, arg, ret, calls, stdout, exitCode>>
testVars == <<s1, s2, out1, out2, outTwice, outUpper, stage>>

----------------------------------------------------------------------------
(* Bounds *)

\* longest enumerated input text of banner
MaxLen == 2
\* most command-line arguments of a run
MaxArgs == 1

----------------------------------------------------------------------------
(* Characters and case mapping: str::to_uppercase *)

AsciiLower == <<"a","b","c","d","e","f","g","h","i","j","k","l","m",
                "n","o","p","q","r","s","t","u","v","w","x","y","z">>
AsciiUpper == <<"A","B","C","D","E","F","G","H","I","J","K","L","M",
                "N","O","P","Q","R","S","T","U","V","W","X","Y","Z">>

Range(f) == {f[i] : i \in DOMAIN f}

\* ASCII characters without case: digits, space, punctuation, line feed
AsciiOther == {"0","1","2","3","4","5","6","7","8","9",
               " ","*",",","!",".","{","}","\n"}

Ascii == Range(AsciiLower) \cup Range(AsciiUpper) \cup AsciiOther

\* Characters outside ASCII: sharp s, e acute, E acute, dotless i,
\* n preceded by apostrophe, modifier apostrophe, ligature fi.
NonAscii == {"U+00DF", "U+00E9", "U+00C9", "U+0131", "U+0149", "U+02BC", "U+FB01"}

Char == Ascii \cup NonAscii

\* A mapping that also shifts digits to the symbol on the same key.
char_to_uppercase_shiftDigits(c) ==
    IF c \in Range(AsciiLower)
    THEN <<AsciiUpper[CHOOSE i \in DOMAIN AsciiLower : AsciiLower[i] = c]>>
    ELSE IF c = "1" THEN <<"!">> ELSE <<c>>

\* char::to_uppercase: the uppercase of one character, one to three characters
\* long (Unicode UnicodeData.txt and SpecialCasing.txt); a character with no
\* uppercase mapping maps to itself.
char_to_uppercase(c) ==
    IF c \in Range(AsciiLower)
    THEN <<AsciiUpper[CHOOSE i \in DOMAIN AsciiLower : AsciiLower[i] = c]>>
    ELSE CASE c = "U+00DF" -> <<"S", "S">>
           [] c = "U+00E9" -> <<"U+00C9">>
           [] c = "U+0131" -> <<"I">>
           [] c = "U+0149" -> <<"U+02BC", "N">>
           [] c = "U+FB01" -> <<"F", "I">>
           [] OTHER -> <<c>>

\* A mapping that swaps case instead of raising it.
to_uppercase_swapcase(s) ==
    [i \in 1..Len(s) |->
        IF s[i] \in Range(AsciiLower)
        THEN AsciiUpper[CHOOSE k \in DOMAIN AsciiLower : AsciiLower[k] = s[i]]
        ELSE IF s[i] \in Range(AsciiUpper)
        THEN AsciiLower[CHOOSE k \in DOMAIN AsciiUpper : AsciiUpper[k] = s[i]]
        ELSE s[i]]

\* str::to_uppercase: the uppercase of every character, in order.
RECURSIVE to_uppercase(_)
to_uppercase(s) ==
    IF s = <<>> THEN <<>>
    ELSE char_to_uppercase(Head(s)) \o to_uppercase(Tail(s))

----------------------------------------------------------------------------
(* format! and banner *)

\* A format string without the spaces around the placeholder.
Template_noSpaces == <<"*","*","*","{","}","*","*","*">>

\* the format string of banner
Template == <<"*","*","*"," ","{","}"," ","*","*","*">>

\* A formatter that drops the space following an empty argument.
RECURSIVE format_dropEmpty(_, _)
format_dropEmpty(t, v) ==
    IF t = <<>> THEN <<>>
    ELSE IF Len(t) >= 2 /\ t[1] = "{" /\ t[2] = "}"
         THEN IF v = <<>> /\ Len(t) >= 3 /\ t[3] = " "
              THEN format_dropEmpty(SubSeq(t, 4, Len(t)), v)
              ELSE v \o format_dropEmpty(SubSeq(t, 3, Len(t)), v)
         ELSE <<t[1]>> \o format_dropEmpty(Tail(t), v)

\* format!(t, v) with one positional argument: the literal characters of t,
\* with v in place of the placeholder {}.
RECURSIVE format(_, _)
format(t, v) ==
    IF t = <<>> THEN <<>>
    ELSE IF Len(t) >= 2 /\ t[1] = "{" /\ t[2] = "}"
         THEN v \o format(SubSeq(t, 3, Len(t)), v)
         ELSE <<t[1]>> \o format(Tail(t), v)

\* A banner with a two-asterisk border.
banner_shortBorder(message) ==
    format(<<"*","*"," ","{","}"," ","*","*">>, to_uppercase(message))

\* A banner that forgets to uppercase its message.
banner_noUpper(message) == format(Template, message)

\* A banner that leaves a text already wearing the border as it is.
banner_keepBordered(message) ==
    LET u == to_uppercase(message)
    IN  IF /\ Len(u) >= 8
           /\ SubSeq(u, 1, 4) = <<"*","*","*"," ">>
           /\ SubSeq(u, Len(u) - 3, Len(u)) = <<" ","*","*","*">>
        THEN u
        ELSE format(Template, u)

banner(message) == format(Template, to_uppercase(message))

----------------------------------------------------------------------------
(* The program: fn main *)

\* the literal "codex demo" of main
CodexDemo == <<"c","o","d","e","x"," ","d","e","m","o">>

\* values a command-line argument may take
ArgValues == {"--help", "codex"}
\* environment variables that may be set at start
EnvVars == {"RUST_BACKTRACE", "LANG"}

ArgLists == UNION {[1..k -> ArgValues] : k \in 0..MaxArgs}

\* exit code of a Rust process whose main thread panicked
PanicExitCode == 101

\* what println!("{}", x) hands to standard output: x and a line feed
Line(x) == format(<<"{", "}", "\n">>, x)

\* A call of banner that also prints what it returns.
MainCall_prints ==
    /\ pc = "start"
    /\ ret' = banner(arg)
    /\ calls' = calls + 1
    /\ stdout' = stdout \o banner(arg)
    /\ pc' = "print"
    /\ UNCHANGED <<args, env, arg, exitCode>>

\* main calls banner with the literal; nothing is read from args or env.
MainCall ==
    /\ pc = "start"
    /\ ret' = banner(arg)
    /\ calls' = calls + 1
    /\ pc' = "print"
    /\ UNCHANGED <<args, env, arg, stdout, exitCode>>

\* A print that writes the line twice.
MainPrintOk_twice ==
    /\ pc = "print"
    /\ stdout' = stdout \o Line(ret) \o Line(ret)
    /\ pc' = "return"
    /\ UNCHANGED <<args, env, arg, ret, calls, exitCode>>

\* println! succeeds: standard output receives the whole line.
MainPrintOk ==
    /\ pc = "print"
    /\ stdout' = stdout \o Line(ret)
    /\ pc' = "return"
    /\ UNCHANGED <<args, env, arg, ret, calls, exitCode>>

\* println! fails: the write to standard output returns an error after n
\* characters of the line (a closed pipe, a full device), and println! panics.
MainPrintFail ==
    /\ pc = "print"
    /\ \E n \in 0..(Len(Line(ret)) - 1) :
          stdout' = stdout \o SubSeq(Line(ret), 1, n)
    /\ pc' = "panic"
    /\ UNCHANGED <<args, env, arg, ret, calls, exitCode>>

\* main returns: the process ends with exit code 0.
MainReturn ==
    /\ pc = "return"
    /\ exitCode' = 0
    /\ pc' = "exited"
    /\ UNCHANGED <<args, env, arg, ret, calls, stdout>>

\* the panic unwinds out of main: the process ends with exit code 101.
MainPanic ==
    /\ pc = "panic"
    /\ exitCode' = PanicExitCode
    /\ pc' = "exited"
    /\ UNCHANGED <<args, env, arg, ret, calls, stdout>>

\* the variables of the banner calls under test, at rest
TestIdle ==
    /\ s1 = <<>> /\ s2 = <<>>
    /\ out1 = <<>> /\ out2 = <<>> /\ outTwice = <<>> /\ outUpper = <<>>
    /\ stage = "idle"

Init ==
    /\ args \in ArgLists
    /\ env \in SUBSET EnvVars
    /\ pc = "start"
    /\ arg = CodexDemo
    /\ ret = <<>>
    /\ calls = 0
    /\ stdout = <<>>
    /\ exitCode = -1
    /\ TestIdle

Next ==
    \/ MainCall /\ UNCHANGED testVars
    \/ MainPrintOk /\ UNCHANGED testVars
    \/ MainPrintFail /\ UNCHANGED testVars
    \/ MainReturn /\ UNCHANGED testVars
    \/ MainPanic /\ UNCHANGED testVars

Spec == Init /\ [][Next]_vars

----------------------------------------------------------------------------
(* banner under test: tests::banner_wraps_text, over bounded inputs *)

\* characters the enumerated inputs are made of: a lowercase letter, an
\* uppercase letter, a digit, the border's two characters, and a character
\* whose uppercase is two characters long
Alphabet == {"a", "A", "1", "*", " ", "U+00DF"}

Demo == <<"d","e","m","o">>
HiBob == <<"H","i",","," ","B","o","b","!">>
Accents == <<"U+00E9","U+0131","U+0149","U+FB01","U+00C9">>

Scenarios == {Demo, HiBob, CodexDemo, Accents}

Inputs == UNION {[1..k -> Alphabet] : k \in 0..MaxLen} \cup Scenarios

\* the process of main, not started
MainIdle ==
    /\ args = <<>> /\ env = {} /\ pc = "idle" /\ arg = CodexDemo
    /\ ret = <<>> /\ calls = 0 /\ stdout = <<>> /\ exitCode = -1

InitBanner ==
    /\ s1 \in Inputs
    /\ s2 \in Inputs
    /\ out1 = <<>> /\ out2 = <<>> /\ outTwice = <<>> /\ outUpper = <<>>
    /\ stage = "call"
    /\ MainIdle

\* banner(s1), as the unit test calls banner("demo")
TestCall ==
    /\ stage = "call"
    /\ out1' = banner(s1)
    /\ stage' = "other"
    /\ UNCHANGED <<s1, s2, out2, outTwice, outUpper>>

\* banner(s2)
TestOther ==
    /\ stage = "other"
    /\ out2' = banner(s2)
    /\ stage' = "twice"
    /\ UNCHANGED <<s1, s2, out1, outTwice, outUpper>>

\* banner(banner(s1))
TestTwice ==
    /\ stage = "twice"
    /\ outTwice' = banner(out1)
    /\ stage' = "upper"
    /\ UNCHANGED <<s1, s2, out1, out2, outUpper>>

\* banner(s1.to_uppercase())
TestUpper ==
    /\ stage = "upper"
    /\ outUpper' = banner(to_uppercase(s1))
    /\ stage' = "done"
    /\ UNCHANGED <<s1, s2, out1, out2, outTwice>>

NextBanner ==
    \/ TestCall /\ UNCHANGED mainVars
    \/ TestOther /\ UNCHANGED mainVars
    \/ TestTwice /\ UNCHANGED mainVars
    \/ TestUpper /\ UNCHANGED mainVars

SpecBanner == InitBanner /\ [][NextBanner]_vars

\* every variable holds a value of its kind
TypeOK ==
    /\ args \in ArgLists
    /\ env \subseteq EnvVars
    /\ pc \in {"idle", "start", "print", "return", "panic", "exited"}
    /\ exitCode \in {-1, 0, PanicExitCode}
    /\ calls \in 0..1
    /\ \A t \in {arg, ret, stdout, s1, s2, out1, out2, outTwice, outUpper} :
          \A i \in DOMAIN t : t[i] \in Char
    /\ stage \in {"idle", "call", "other", "twice", "upper", "done"}

----------------------------------------------------------------------------
(* Properties *)

Prefix == <<"*","*","*"," ">>
Suffix == <<" ","*","*","*">>

\* the text between the border's prefix and suffix
Core(out) == SubSeq(out, Len(Prefix) + 1, Len(out) - Len(Suffix))

IsText(t) == \A i \in DOMAIN t : t[i] \in Char
IsPrefixOf(p, t) == Len(p) <= Len(t) /\ p = SubSeq(t, 1, Len(p))

\* the characters without an uppercase form: digits, spaces, punctuation,
\* letters already uppercase
NoUpperForm == AsciiOther \cup Range(AsciiUpper) \cup {"U+00C9", "U+02BC"}

\* c has no uppercase form
PassThrough(c) == c \in NoUpperForm

\* how many characters the uppercase of the first n characters of s has
RECURSIVE UpperLen(_, _)
UpperLen(s, n) ==
    IF n = 0 THEN 0 ELSE UpperLen(s, n - 1) + Len(char_to_uppercase(s[n]))

DemoBanner == <<"*","*","*"," ","D","E","M","O"," ","*","*","*">>
HiBobBanner == <<"*","*","*"," ","H","I",","," ","B","O","B","!"," ","*","*","*">>
CodexDemoLine == <<"*","*","*"," ","C","O","D","E","X"," ","D","E","M","O",
                   " ","*","*","*","\n">>

Called == stage \in {"other", "twice", "upper", "done"}

\* C1: for every input s, banner(s) is "*** ", then the uppercase of s, then
\* " ***", and nothing else; banner("demo") is "*** DEMO ***".
C1_BannerWraps ==
    Called =>
        /\ out1 = Prefix \o to_uppercase(s1) \o Suffix
        /\ s1 = Demo => out1 = DemoBanner

C1_Witness == Called /\ s1 = Demo /\ out1 = DemoBanner

\* C2 as stated: every run, whatever its arguments and environment, ends with
\* exit code 0 after one call of banner, standard output having received
\* exactly the line "*** CODEX DEMO ***".
C2_EveryRunPrintsLine ==
    pc = "exited" => calls = 1 /\ stdout = CodexDemoLine /\ exitCode = 0

\* C2 amended: every run, whatever its arguments and environment, calls banner
\* once with "codex demo"; a run whose write to standard output succeeds ends
\* with exit code 0, standard output having received exactly the line
\* "*** CODEX DEMO ***"; a run whose write fails ends with exit code 101,
\* standard output having received a proper prefix of that line; standard
\* output never holds anything but a prefix of that line.
C2_RunPrintsLineOrPanics ==
    /\ IsPrefixOf(stdout, CodexDemoLine)
    /\ pc \notin {"start", "idle"} => calls = 1 /\ arg = CodexDemo
    /\ pc = "return" => stdout = CodexDemoLine
    /\ pc = "panic" => stdout # CodexDemoLine
    /\ pc = "exited" =>
          \/ exitCode = 0 /\ stdout = CodexDemoLine
          \/ exitCode = PanicExitCode /\ stdout # CodexDemoLine

C2_Witness ==
    /\ pc = "exited" /\ exitCode = 0 /\ stdout = CodexDemoLine
    /\ args # <<>> /\ env # {}

\* C3: when the uppercase of s has as many characters as s, banner(s) has
\* Len(s) + 8 characters; the uppercase of an ASCII text has as many
\* characters as the text.
C3_LengthPlus8 ==
    Called =>
        /\ Len(to_uppercase(s1)) = Len(s1) => Len(out1) = Len(s1) + 8
        /\ (\A i \in DOMAIN s1 : s1[i] \in Ascii) => Len(to_uppercase(s1)) = Len(s1)

C3_Witness ==
    Called /\ s1 = <<"a", "1">> /\ Len(to_uppercase(s1)) = 2 /\ Len(out1) = 10

\* C4 as stated: banner returns a text for every input, and every character
\* of the input without an uppercase form stands unchanged at the same
\* position of the core text.
C4_PassThroughSamePosition ==
    Called =>
        /\ IsText(out1)
        /\ \A i \in DOMAIN s1 : PassThrough(s1[i]) => Core(out1)[i] = s1[i]

\* C4 amended: banner returns a text for every input, and every character of
\* the input without an uppercase form stands unchanged in the core text, at
\* its position moved right by the characters that the uppercase forms of the
\* characters before it add (the same position when each of them has a
\* one-character uppercase form, as every ASCII character has);
\* banner("Hi, Bob!") is "*** HI, BOB! ***".
C4_PassThroughShifted ==
    Called =>
        /\ IsText(out1)
        /\ \A i \in DOMAIN s1 :
              PassThrough(s1[i]) =>
                  /\ UpperLen(s1, i) <= Len(Core(out1))
                  /\ Core(out1)[UpperLen(s1, i)] = s1[i]
                  /\ (\A j \in 1..(i - 1) : Len(char_to_uppercase(s1[j])) = 1)
                        => Core(out1)[i] = s1[i]
        /\ s1 = HiBob => out1 = HiBobBanner

C4_Witness ==
    /\ Called /\ s1 = <<"U+00DF", "1">>
    /\ Core(out1) = <<"S", "S", "1">>

\* C5: banner("") is "***  ***", two spaces between the asterisk groups.
C5_EmptyInput ==
    (Called /\ s1 = <<>>) => out1 = <<"*","*","*"," "," ","*","*","*">>

C5_Witness == Called /\ s1 = <<>> /\ Len(out1) = 8

\* C6: uppercasing is idempotent, and banner of the uppercase of s is
\* banner of s.
C6_UppercaseIdempotent ==
    stage = "done" =>
        /\ to_uppercase(to_uppercase(s1)) = to_uppercase(s1)
        /\ outUpper = out1

C6_Witness ==
    stage = "done" /\ s1 = <<"U+00DF", "a">> /\ outUpper = out1
        /\ to_uppercase(s1) # s1

\* C8: a call of banner leaves its input and standard output as they were;
\* standard output changes only in the print of main, which happens once.
C8_BannerHasNoEffects ==
    [][ /\ arg' = arg
        /\ pc = "start" => stdout' = stdout
        /\ stdout' # stdout => pc = "print" /\ pc' # "print" ]_vars

C8_Witness ==
    pc = "print" /\ calls = 1 /\ arg = CodexDemo /\ stdout = <<>>
        /\ ret = SubSeq(CodexDemoLine, 1, Len(CodexDemoLine) - 1)

\* C9: banner(s1) = banner(s2) exactly when the uppercase of s1 is the
\* uppercase of s2.
C9_EqualIffUppercaseEqual ==
    stage \in {"twice", "upper", "done"} =>
        ((out1 = out2) <=> (to_uppercase(s1) = to_uppercase(s2)))

C9_Witness ==
    /\ stage = "done" /\ s1 = <<"a", "U+00DF">> /\ s2 = <<"A", "U+00DF">>
    /\ out1 = out2

\* C10: banner(banner(s)) is "*** *** ", then the uppercase of s, then
\* " *** ***"; it differs from banner(s) and is 8 characters longer.
C10_BannerTwice ==
    stage \in {"upper", "done"} =>
        /\ outTwice = Prefix \o Prefix \o to_uppercase(s1) \o Suffix \o Suffix
        /\ outTwice # out1
        /\ Len(outTwice) = Len(out1) + 8

C10_Witness ==
    /\ stage = "done" /\ s1 = <<"a">>
    /\ outTwice = <<"*","*","*"," ","*","*","*"," ","A"," ","*","*","*"," ","*","*","*">>

====
